---- MODULE Spec2Model ----
(***************************************************************************)
(* Model of impro.py: detection of interruptive generations (IGs) in a     *)
(* signal, cleaning of timestamp sets, duo matching between two timestamp  *)
(* sets and the duo count over a trio.  The functions of the module are    *)
(* pure; each is an operator computed the way the code computes it, and    *)
(* each specification below draws the arguments of a call in its initial   *)
(* state and applies the function in one step.                             *)
(***************************************************************************)
EXTENDS Integers, Sequences, FiniteSets

VARIABLES pc, x, data, threshold, ind_x, ind_y, ts1, ts2, ts3,
          tau, do_clean, causal, do_fraction, ret, again, result

vars == <<pc, x, data, threshold, ind_x, ind_y, ts1, ts2, ts3,
          tau, do_clean, causal, do_fraction, ret, again, result>>

(***************************************************************************)
(* Bounds of the model.                                                    *)
(***************************************************************************)
MaxSigLen == 4      \* longest enumerated signal
MaxSigVal == 2      \* signal samples are 0..MaxSigVal
MaxThr    == 2      \* thresholds are -MaxThr..MaxThr
MaxT      == 4      \* timestamps given to clean_IG are 0..MaxT
MaxLen    == 4      \* longest timestamp sequence given to clean_IG
DuoT      == 3      \* timestamps given to find_IG_duo are 0..DuoT
DuoLen    == 2      \* longest timestamp sequence given to find_IG_duo
TrioT     == 2      \* timestamps of a trio are 0..TrioT

(***************************************************************************)
(* Default arguments of the code.                                          *)
(***************************************************************************)
DefaultThreshold == 5
DefaultTau       == 2
NbDuoThreshold   == 4

Taus  == 0..DefaultTau
Flags == {0, 1}

(***************************************************************************)
(* numpy helpers, on sequences of integers.  Indices returned by where and *)
(* taken by delete and take are 0-based, as in numpy.                      *)
(***************************************************************************)
Range(s) == {s[i] : i \in DOMAIN s}

abs(n) == IF n < 0 THEN -n ELSE n

\* numpy.diff: empty for fewer than two elements
diff(s) == IF Len(s) < 2 THEN <<>>
           ELSE [i \in 1..(Len(s) - 1) |-> s[i + 1] - s[i]]

min(s) == CHOOSE m \in Range(s) : \A n \in Range(s) : m <= n

\* numpy.where(mask)[0]: the 0-based positions where mask holds, ascending
where(mask) ==
    LET w[k \in 0..Len(mask)] ==
            IF k = 0 THEN <<>>
            ELSE IF mask[k] THEN Append(w[k - 1], k - 1) ELSE w[k - 1]
    IN  w[Len(mask)]

\* arr[ind]: the elements of arr at the 0-based positions ind
take(arr, ind) == [j \in 1..Len(ind) |-> arr[ind[j] + 1]]

\* numpy.delete(arr, obj): arr without the 0-based positions obj
delete(arr, obj) ==
    LET d[k \in 0..Len(arr)] ==
            IF k = 0 THEN <<>>
            ELSE IF (k - 1) \in Range(obj) THEN d[k - 1]
                 ELSE Append(d[k - 1], arr[k])
    IN  d[Len(arr)]

\* one insertion into an ascending sequence
insert(s, v) ==
    LET n == Cardinality({i \in DOMAIN s : s[i] <= v})
    IN  SubSeq(s, 1, n) \o <<v>> \o SubSeq(s, n + 1, Len(s))

\* numpy.sort
sort(s) ==
    LET srt[k \in 0..Len(s)] ==
            IF k = 0 THEN <<>> ELSE insert(srt[k - 1], s[k])
    IN  srt[Len(s)]

(***************************************************************************)
(* find_IG(x, threshold): timestamps of the IGs of a signal.               *)
(***************************************************************************)
\* find_IG with a strict comparison on the rising branch
find_IG_strict(sig, thr) ==
    LET y   == diff(sig)
        ind == IF thr > 0
               THEN where([i \in DOMAIN y |-> y[i] > thr])
               ELSE where([i \in DOMAIN y |-> y[i] <= thr])
    IN  [k \in 1..Len(ind) |-> ind[k] + 1]

\* find_IG that sends a threshold of 0 to the rising branch
find_IG_zero_rising(sig, thr) ==
    LET y   == diff(sig)
        ind == IF thr >= 0
               THEN where([i \in DOMAIN y |-> y[i] >= thr])
               ELSE where([i \in DOMAIN y |-> y[i] <= thr])
    IN  [k \in 1..Len(ind) |-> ind[k] + 1]

find_IG(sig, thr) ==
    LET y   == diff(sig)
        ind == IF thr > 0
               THEN where([i \in DOMAIN y |-> y[i] >= thr])
               ELSE where([i \in DOMAIN y |-> y[i] <= thr])
    IN  [k \in 1..Len(ind) |-> ind[k] + 1]

(***************************************************************************)
(* clean_IG(ind_x, tau): remove the timestamps that follow another one by  *)
(* at most tau, all of them at once, and start again on what is left.      *)
(***************************************************************************)
\* clean_IG that takes a smallest gap equal to tau for a clean set
RECURSIVE clean_IG_ge(_, _)
clean_IG_ge(s, t) ==
    IF Len(s) > 1
    THEN LET y == diff(s)
         IN  IF min(y) >= t
             THEN s
             ELSE LET ind == where([i \in DOMAIN y |-> y[i] <= t])
                      new == delete(s, [k \in 1..Len(ind) |-> ind[k] + 1])
                  IN  clean_IG_ge(new, t)
    ELSE s

\* clean_IG that removes the first redundant timestamp only, and stops
clean_IG_first(s, t) ==
    IF Len(s) > 1
    THEN LET y == diff(s)
         IN  IF min(y) > t
             THEN s
             ELSE LET ind == where([i \in DOMAIN y |-> y[i] <= t])
                  IN  delete(s, <<ind[1] + 1>>)
    ELSE s

\* clean_IG that removes the earlier timestamp of each close pair
RECURSIVE clean_IG_earlier(_, _)
clean_IG_earlier(s, t) ==
    IF Len(s) > 1
    THEN LET y == diff(s)
         IN  IF min(y) > t
             THEN s
             ELSE LET ind == where([i \in DOMAIN y |-> y[i] <= t])
                      new == delete(s, ind)
                  IN  clean_IG_earlier(new, t)
    ELSE s

RECURSIVE clean_IG(_, _)
clean_IG(s, t) ==
    IF Len(s) > 1
    THEN LET y == diff(s)
         IN  IF min(y) > t
             THEN s
             ELSE LET ind == where([i \in DOMAIN y |-> y[i] <= t])
                      new == delete(s, [k \in 1..Len(ind) |-> ind[k] + 1])
                  IN  clean_IG(new, t)
    ELSE s

(***************************************************************************)
(* find_IG_duo(ind_x, ind_y, tau, do_clean, causal): the timestamps of     *)
(* ind_y that match a timestamp of ind_x.                                  *)
(***************************************************************************)
\* match whose causal branch forgets that the match follows the trigger
match_any_side(i, sy, t, c) ==
    IF c = 0
    THEN where([k \in DOMAIN sy |-> abs(sy[k] - i) <= t])
    ELSE where([k \in DOMAIN sy |-> (sy[k] - i) <= t])

match(i, sy, t, c) ==
    IF c = 0
    THEN where([k \in DOMAIN sy |-> abs(sy[k] - i) <= t])
    ELSE where([k \in DOMAIN sy |-> (i <= sy[k]) /\ ((sy[k] - i) <= t)])

\* find_IG_duo that returns the sorted matches as they are without cleaning
find_IG_duo_raw(sx, sy, t, dc, c) ==
    LET found[k \in 0..Len(sx)] ==
            IF k = 0 THEN <<>>
            ELSE found[k - 1] \o take(sy, match(sx[k], sy, t, c))
        sorted == sort(found[Len(sx)])
    IN  IF dc > 0 THEN clean_IG(sort(sorted), t)
        ELSE sort(sorted)

find_IG_duo(sx, sy, t, dc, c) ==
    LET found[k \in 0..Len(sx)] ==
            IF k = 0 THEN <<>>
            ELSE found[k - 1] \o take(sy, match(sx[k], sy, t, c))
        sorted == sort(found[Len(sx)])
    IN  IF dc > 0 THEN clean_IG(sort(sorted), t)
        ELSE clean_IG(sort(sorted), 0)

(***************************************************************************)
(* Python numbers.  An int is exact.  A float is an IEEE 754 double; the   *)
(* doubles that occur here are 0 and values v with 2^-5 <= v < 16 (counts  *)
(* of at most 5 timestamps per set divided by such counts, sums of six of  *)
(* them, halves and sixths of the sums).  Every such double is a multiple  *)
(* of 2^-57, and it is kept as the pair <<hi, lo>> with                    *)
(* v = (hi * 2^30 + lo) * 2^-57, lo < 2^30.  Operations compute the exact  *)
(* result and round it to 53 significant bits, to nearest, ties to even.   *)
(***************************************************************************)
\* hi * 2^30 + lo + rn/rd with its q lowest units rounded away
round_at(hi, lo, rn, rd, q) ==
    LET low  == lo % q
        odd  == (lo \div q) % 2 = 1
        lhs  == 2 * low * rd + 2 * rn
        up   == lhs > q * rd \/ (lhs = q * rd /\ odd)
    IN  IF ~up THEN <<hi, lo - low>>
        ELSE IF lo - low + q = 2^30 THEN <<hi + 1, 0>>
        ELSE <<hi, lo - low + q>>

\* the units that hi * 2^30 + lo has beyond 53 bits: 2^(bits - 53), or 1
RECURSIVE excess(_)
excess(h) == IF h < 2^23 THEN 1 ELSE 2 * excess(h \div 2)

\* the double nearest to (hi * 2^30 + lo + rn/rd) * 2^-57, where rn < rd
round(hi, lo, rn, rd) == round_at(hi, lo, rn, rd, excess(hi))

\* float + float
fadd(f, g) ==
    LET lo == f[2] + g[2]
    IN  round(f[1] + g[1] + (lo \div (2^30)), lo % (2^30), 0, 1)

\* (h1 * 2^45 + h0 * 2^30 + l1 * 2^15 + l0) * 2^-57 / b, rounded
fdiv(h1, h0, l1, l0, b) ==
    LET q1 == h1 \div b
        r1 == h1 % b
        q2 == (r1 * (2^15) + h0) \div b
        r2 == (r1 * (2^15) + h0) % b
        q3 == (r2 * (2^15) + l1) \div b
        r3 == (r2 * (2^15) + l1) % b
        q4 == (r3 * (2^15) + l0) \div b
        r4 == (r3 * (2^15) + l0) % b
    IN  round(q1 * (2^15) + q2, q3 * (2^15) + q4, r4, b)

PyInt(k) == [t |-> "int", v |-> k]

PyFloat(f) == [t |-> "float", v |-> f]

\* float(k) of an int k
to_float(a) == IF a.t = "int" THEN <<a.v * (2^27), 0>> ELSE a.v

\* a + b: int + int is an int, anything else is a float
add(a, b) ==
    IF a.t = "int" /\ b.t = "int" THEN PyInt(a.v + b.v)
    ELSE PyFloat(fadd(to_float(a), to_float(b)))

\* a / n for an int n > 0: always a float
truediv(a, n) ==
    IF a.t = "int" THEN PyFloat(fdiv(a.v * (2^12), 0, 0, 0, n))
    ELSE PyFloat(fdiv(a.v[1] \div (2^15), a.v[1] % (2^15),
                    a.v[2] \div (2^15), a.v[2] % (2^15), n))

(***************************************************************************)
(* count_duo_matches_in_trio(ts1, ts2, ts3, tau, causal, do_clean,         *)
(* do_fraction): the duos of a trio, over the six ordered pairs.           *)
(***************************************************************************)
\* count_duo_matches_in_trio that counts the pair (3,1) twice and (3,2) never
count_duo_matches_in_trio_slip(s1, s2, s3, t, c, dc, df) ==
    LET IG1 == IF dc = 1 THEN clean_IG(s1, t) ELSE s1
        IG2 == IF dc = 1 THEN clean_IG(s2, t) ELSE s2
        IG3 == IF dc = 1 THEN clean_IG(s3, t) ELSE s3
        nb_IG1 == Len(IG1)
        nb_IG2 == Len(IG2)
        nb_IG3 == Len(IG3)
        nb_duo_12 == PyInt(Len(find_IG_duo(IG1, IG2, t, dc, c)))
        nb_duo_13 == PyInt(Len(find_IG_duo(IG1, IG3, t, dc, c)))
        nb_duo_23 == PyInt(Len(find_IG_duo(IG2, IG3, t, dc, c)))
        nb_duo_21 == PyInt(Len(find_IG_duo(IG2, IG1, t, dc, c)))
        nb_duo_31 == PyInt(Len(find_IG_duo(IG3, IG1, t, dc, c)))
        nb_duo_32 == PyInt(Len(find_IG_duo(IG3, IG1, t, dc, c)))
        frac(nb, n) == IF df = 1 /\ n > 0 THEN truediv(nb, n) ELSE nb
        f_21 == frac(nb_duo_21, nb_IG1)
        f_31 == frac(nb_duo_31, nb_IG1)
        f_32 == frac(nb_duo_32, nb_IG2)
        f_12 == frac(nb_duo_12, nb_IG2)
        f_13 == frac(nb_duo_13, nb_IG3)
        f_23 == frac(nb_duo_23, nb_IG3)
        sum_2 == add(f_12, f_13)
        sum_3 == add(sum_2, f_23)
        sum_4 == add(sum_3, f_21)
        sum_5 == add(sum_4, f_31)
        total == add(sum_5, f_32)
        half  == truediv(total, 2)
    IN  IF df = 1 THEN truediv(half, 3) ELSE half

\* count_duo_matches_in_trio that does not halve the sum of the six counts
count_duo_matches_in_trio_sum(s1, s2, s3, t, c, dc, df) ==
    LET IG1 == IF dc = 1 THEN clean_IG(s1, t) ELSE s1
        IG2 == IF dc = 1 THEN clean_IG(s2, t) ELSE s2
        IG3 == IF dc = 1 THEN clean_IG(s3, t) ELSE s3
        nb_IG1 == Len(IG1)
        nb_IG2 == Len(IG2)
        nb_IG3 == Len(IG3)
        nb_duo_12 == PyInt(Len(find_IG_duo(IG1, IG2, t, dc, c)))
        nb_duo_13 == PyInt(Len(find_IG_duo(IG1, IG3, t, dc, c)))
        nb_duo_23 == PyInt(Len(find_IG_duo(IG2, IG3, t, dc, c)))
        nb_duo_21 == PyInt(Len(find_IG_duo(IG2, IG1, t, dc, c)))
        nb_duo_31 == PyInt(Len(find_IG_duo(IG3, IG1, t, dc, c)))
        nb_duo_32 == PyInt(Len(find_IG_duo(IG3, IG2, t, dc, c)))
        frac(nb, n) == IF df = 1 /\ n > 0 THEN truediv(nb, n) ELSE nb
        f_21 == frac(nb_duo_21, nb_IG1)
        f_31 == frac(nb_duo_31, nb_IG1)
        f_32 == frac(nb_duo_32, nb_IG2)
        f_12 == frac(nb_duo_12, nb_IG2)
        f_13 == frac(nb_duo_13, nb_IG3)
        f_23 == frac(nb_duo_23, nb_IG3)
        sum_2 == add(f_12, f_13)
        sum_3 == add(sum_2, f_23)
        sum_4 == add(sum_3, f_21)
        sum_5 == add(sum_4, f_31)
        total == add(sum_5, f_32)
        half  == truediv(total, 1)
    IN  IF df = 1 THEN truediv(half, 3) ELSE half

count_duo_matches_in_trio(s1, s2, s3, t, c, dc, df) ==
    LET IG1 == IF dc = 1 THEN clean_IG(s1, t) ELSE s1
        IG2 == IF dc = 1 THEN clean_IG(s2, t) ELSE s2
        IG3 == IF dc = 1 THEN clean_IG(s3, t) ELSE s3
        nb_IG1 == Len(IG1)
        nb_IG2 == Len(IG2)
        nb_IG3 == Len(IG3)
        nb_duo_12 == PyInt(Len(find_IG_duo(IG1, IG2, t, dc, c)))
        nb_duo_13 == PyInt(Len(find_IG_duo(IG1, IG3, t, dc, c)))
        nb_duo_23 == PyInt(Len(find_IG_duo(IG2, IG3, t, dc, c)))
        nb_duo_21 == PyInt(Len(find_IG_duo(IG2, IG1, t, dc, c)))
        nb_duo_31 == PyInt(Len(find_IG_duo(IG3, IG1, t, dc, c)))
        nb_duo_32 == PyInt(Len(find_IG_duo(IG3, IG2, t, dc, c)))
        frac(nb, n) == IF df = 1 /\ n > 0 THEN truediv(nb, n) ELSE nb
        f_21 == frac(nb_duo_21, nb_IG1)
        f_31 == frac(nb_duo_31, nb_IG1)
        f_32 == frac(nb_duo_32, nb_IG2)
        f_12 == frac(nb_duo_12, nb_IG2)
        f_13 == frac(nb_duo_13, nb_IG3)
        f_23 == frac(nb_duo_23, nb_IG3)
        sum_2 == add(f_12, f_13)
        sum_3 == add(sum_2, f_23)
        sum_4 == add(sum_3, f_21)
        sum_5 == add(sum_4, f_31)
        total == add(sum_5, f_32)
        half  == truediv(total, 2)
    IN  IF df = 1 THEN truediv(half, 3) ELSE half

(***************************************************************************)
(* count_nb_duo(data, threshold, tau, causal, do_clean, do_fraction).      *)
(* data[p] stands for data[p-1, :, 1], the control channel of performer p. *)
(***************************************************************************)
count_nb_duo(d, thr, t, c, dc, df) ==
    LET IG1 == find_IG(d[1], thr)
        IG2 == find_IG(d[2], thr)
        IG3 == find_IG(d[3], thr)
    IN  count_duo_matches_in_trio(IG1, IG2, IG3, t, c, dc, df)

(***************************************************************************)
(* Arguments.                                                              *)
(***************************************************************************)
SeqsUpTo(S, n) == UNION {[1..k -> S] : k \in 0..n}

IsAscending(s) == \A i \in 1..(Len(s) - 1) : s[i] <= s[i + 1]

IsStrictlyAscending(s) == \A i \in 1..(Len(s) - 1) : s[i] < s[i + 1]

AscSeqs(T, n) == {s \in SeqsUpTo(0..T, n) : IsAscending(s)}

ExampleSignal == <<0, 0, 0, 8, 8, 8, 0, 0, 20, 20>>

ExampleTimestamps == <<10, 11, 12, 20>>

ExampleDuoX == <<5>>

ExampleDuoY == <<6, 7>>

Signals == SeqsUpTo(0..MaxSigVal, MaxSigLen) \cup {ExampleSignal}

Thresholds == (-MaxThr..MaxThr) \cup {DefaultThreshold}

NoData == <<>>

(***************************************************************************)
(* Calls of find_IG.                                                       *)
(***************************************************************************)
InitFind ==
    /\ pc = "find_IG"
    /\ x \in Signals
    /\ threshold \in Thresholds
    /\ data = NoData
    /\ ind_x = <<>> /\ ind_y = <<>>
    /\ ts1 = <<>> /\ ts2 = <<>> /\ ts3 = <<>>
    /\ tau = 0 /\ do_clean = 0 /\ causal = 0 /\ do_fraction = 0
    /\ ret = <<>> /\ again = <<>> /\ result = PyInt(0)

Call_find_IG ==
    /\ pc = "find_IG"
    /\ ret' = find_IG(x, threshold)
    /\ pc' = "found"
    /\ UNCHANGED <<x, data, threshold, ind_x, ind_y, ts1, ts2, ts3,
                   tau, do_clean, causal, do_fraction, again, result>>

\* the same signal given to find_IG with a threshold of 0
Call_find_IG_zero ==
    /\ pc = "found"
    /\ again' = find_IG(x, 0)
    /\ pc' = "found0"
    /\ UNCHANGED <<x, data, threshold, ind_x, ind_y, ts1, ts2, ts3,
                   tau, do_clean, causal, do_fraction, ret, result>>

NextFind == Call_find_IG \/ Call_find_IG_zero

SpecFind == InitFind /\ [][NextFind]_vars

(***************************************************************************)
(* Calls of clean_IG, and of clean_IG on what it returned.                 *)
(***************************************************************************)
InitClean ==
    /\ pc = "clean_IG"
    /\ ind_x \in AscSeqs(MaxT, MaxLen) \cup {ExampleTimestamps}
    /\ tau \in Taus
    /\ x = <<>> /\ data = NoData /\ threshold = DefaultThreshold
    /\ ind_y = <<>>
    /\ ts1 = <<>> /\ ts2 = <<>> /\ ts3 = <<>>
    /\ do_clean = 0 /\ causal = 0 /\ do_fraction = 0
    /\ ret = <<>> /\ again = <<>> /\ result = PyInt(0)

Call_clean_IG ==
    /\ pc = "clean_IG"
    /\ ret' = clean_IG(ind_x, tau)
    /\ pc' = "cleaned"
    /\ UNCHANGED <<x, data, threshold, ind_x, ind_y, ts1, ts2, ts3,
                   tau, do_clean, causal, do_fraction, again, result>>

Call_clean_IG_again ==
    /\ pc = "cleaned"
    /\ again' = clean_IG(ret, tau)
    /\ pc' = "recleaned"
    /\ UNCHANGED <<x, data, threshold, ind_x, ind_y, ts1, ts2, ts3,
                   tau, do_clean, causal, do_fraction, ret, result>>

NextClean == Call_clean_IG \/ Call_clean_IG_again

SpecClean == InitClean /\ [][NextClean]_vars

(***************************************************************************)
(* Calls of find_IG_duo.                                                   *)
(***************************************************************************)
InitDuo ==
    /\ pc = "find_IG_duo"
    /\ ind_x \in AscSeqs(DuoT, DuoLen) \cup {ExampleDuoX}
    /\ ind_y \in AscSeqs(DuoT, DuoLen) \cup {ExampleDuoY}
    /\ tau \in Taus
    /\ do_clean \in Flags
    /\ causal \in Flags
    /\ x = <<>> /\ data = NoData /\ threshold = DefaultThreshold
    /\ ts1 = <<>> /\ ts2 = <<>> /\ ts3 = <<>>
    /\ do_fraction = 0
    /\ ret = <<>> /\ again = <<>> /\ result = PyInt(0)

Call_find_IG_duo ==
    /\ pc = "find_IG_duo"
    /\ ret' = find_IG_duo(ind_x, ind_y, tau, do_clean, causal)
    /\ pc' = "matched"
    /\ UNCHANGED <<x, data, threshold, ind_x, ind_y, ts1, ts2, ts3,
                   tau, do_clean, causal, do_fraction, again, result>>

NextDuo == Call_find_IG_duo

SpecDuo == InitDuo /\ [][NextDuo]_vars

(***************************************************************************)
(* Calls of count_duo_matches_in_trio on three timestamp sets, and of      *)
(* count_nb_duo on the signals of three performers.                        *)
(***************************************************************************)
TrioSeqs == {s \in SeqsUpTo(0..TrioT, TrioT + 1) : IsStrictlyAscending(s)}

\* the control channels over TrioT time steps
TrioSignals == [1..TrioT -> {0, NbDuoThreshold}]

TrioThresholds == {NbDuoThreshold, -NbDuoThreshold}

\* a rank that tells any two sequences over 0..(b - 2) apart
Rank(s, b) ==
    LET r[k \in 0..Len(s)] ==
            IF k = 0 THEN 0 ELSE r[k - 1] * b + s[k] + 1
    IN  r[Len(s)]

\* The three performers are drawn up to their labelling: the arguments come
\* in ascending rank, and the properties of a trio evaluate the six orderings
\* of the arguments where the ordering matters.
InitTrio ==
    /\ tau \in Taus
    /\ do_clean \in Flags
    /\ causal \in Flags
    /\ do_fraction \in Flags
    /\ \/ /\ pc = "count_duo_matches_in_trio"
          /\ ts1 \in TrioSeqs
          /\ ts2 \in TrioSeqs
          /\ ts3 \in TrioSeqs
          /\ Rank(ts1, TrioT + 2) <= Rank(ts2, TrioT + 2)
          /\ Rank(ts2, TrioT + 2) <= Rank(ts3, TrioT + 2)
          /\ data = NoData
          /\ threshold = DefaultThreshold
       \/ /\ pc = "count_nb_duo"
          /\ data \in [1..3 -> TrioSignals]
          /\ Rank(data[1], NbDuoThreshold + 2) <= Rank(data[2], NbDuoThreshold + 2)
          /\ Rank(data[2], NbDuoThreshold + 2) <= Rank(data[3], NbDuoThreshold + 2)
          /\ threshold \in TrioThresholds
          /\ ts1 = <<>> /\ ts2 = <<>> /\ ts3 = <<>>
    /\ x = <<>> /\ ind_x = <<>> /\ ind_y = <<>>
    /\ ret = <<>> /\ again = <<>> /\ result = PyInt(0)

Call_count_duo_matches_in_trio ==
    /\ pc = "count_duo_matches_in_trio"
    /\ result' = count_duo_matches_in_trio(ts1, ts2, ts3, tau, causal,
                                           do_clean, do_fraction)
    /\ pc' = "counted"
    /\ UNCHANGED <<x, data, threshold, ind_x, ind_y, ts1, ts2, ts3,
                   tau, do_clean, causal, do_fraction, ret, again>>

\* ts1, ts2, ts3 keep the timestamps count_nb_duo detected and passed on
Call_count_nb_duo ==
    /\ pc = "count_nb_duo"
    /\ ts1' = find_IG(data[1], threshold)
    /\ ts2' = find_IG(data[2], threshold)
    /\ ts3' = find_IG(data[3], threshold)
    /\ result' = count_nb_duo(data, threshold, tau, causal,
                              do_clean, do_fraction)
    /\ pc' = "counted"
    /\ UNCHANGED <<x, data, threshold, ind_x, ind_y,
                   tau, do_clean, causal, do_fraction, ret, again>>

NextTrio == Call_count_duo_matches_in_trio \/ Call_count_nb_duo

SpecTrio == InitTrio /\ [][NextTrio]_vars

(***************************************************************************)
(* Properties of find_IG.                                                  *)
(***************************************************************************)
\* the post-change indices j whose step x[j+1]-x[j] passes the threshold
StepSet(sig, thr) ==
    {j \in 1..(Len(sig) - 1) :
        IF thr > 0 THEN sig[j + 1] - sig[j] >= thr
                   ELSE sig[j + 1] - sig[j] <= thr}

\* C3: find_IG returns exactly the post-change indices of the steps that
\* pass the threshold (>= for a positive threshold, <= otherwise), in
\* ascending order: all within 1..len(x)-1, strictly increasing, none for a
\* signal shorter than 2, and <<3, 8>> for the example signal at threshold 5.
C3_FindIG ==
    pc \in {"found", "found0"} =>
        /\ IsStrictlyAscending(ret)
        /\ Range(ret) = StepSet(x, threshold)
        /\ \A v \in Range(ret) : 1 <= v /\ v <= Len(x) - 1
        /\ (Len(x) < 2 => ret = <<>>)
        /\ (x = ExampleSignal /\ threshold = DefaultThreshold => ret = <<3, 8>>)

C3_Witness ==
    /\ pc = "found"
    /\ x = ExampleSignal
    /\ threshold = DefaultThreshold
    /\ ret = <<3, 8>>

\* C8 as stated: a threshold of 0 gives the same timestamps as any negative
\* threshold.
C8_ZeroSameAsNegative ==
    (pc = "found0" /\ threshold < 0) => ret = again

\* C8 amended: a threshold of 0 takes the "<=" branch as a negative one does,
\* so it returns the post-change indices of the steps <= 0; the timestamps of
\* a negative threshold t are among them, and the two results are equal
\* exactly when the signal has no step in t+1..0.
C8_ZeroContainsNegative ==
    (pc = "found0" /\ threshold < 0) =>
        /\ Range(again) = {j \in 1..(Len(x) - 1) : x[j + 1] - x[j] <= 0}
        /\ Range(ret) \subseteq Range(again)
        /\ (ret = again <=>
               ~ \E j \in 1..(Len(x) - 1) :
                     threshold < x[j + 1] - x[j] /\ x[j + 1] - x[j] <= 0)

C8_Witness ==
    /\ pc = "found0"
    /\ threshold < 0
    /\ ret # <<>>
    /\ Len(ret) < Len(again)

(***************************************************************************)
(* Properties of clean_IG.                                                 *)
(***************************************************************************)
\* the elements of s at the positions I, in order
Restrict(s, I) ==
    LET r[k \in 0..Len(s)] ==
            IF k = 0 THEN <<>>
            ELSE IF k \in I THEN Append(r[k - 1], s[k]) ELSE r[k - 1]
    IN  r[Len(s)]

IsSubsequence(a, b) == \E I \in SUBSET DOMAIN b : Restrict(b, I) = a

GapsExceed(s, t) == \A i \in 1..(Len(s) - 1) : s[i + 1] - s[i] > t

\* C1: what clean_IG returns for an ascending sequence has at most one
\* element or only gaps > tau, is a subsequence of its argument, and starts
\* with the first element of a non-empty argument.
C1_CleanGaps ==
    pc \in {"cleaned", "recleaned"} =>
        /\ (Len(ret) <= 1 \/ GapsExceed(ret, tau))
        /\ IsSubsequence(ret, ind_x)
        /\ (ind_x # <<>> => ret # <<>> /\ ret[1] = ind_x[1])

C1_Witness ==
    /\ pc = "cleaned"
    /\ tau > 0
    /\ Len(ret) >= 2
    /\ Len(ret) < Len(ind_x)

\* C2: clean_IG applied to its own result returns that result unchanged.
C2_CleanIdempotent ==
    pc = "recleaned" => again = ret

C2_Witness ==
    /\ pc = "recleaned"
    /\ Len(ret) >= 2
    /\ Len(ret) < Len(ind_x)
    /\ again = ret

\* the left-to-right filter: keep s[1], then each element whose gap to the
\* most recently kept element is > t
KeepAfterKept(s, t) ==
    LET f[k \in 0..Len(s)] ==
            IF k = 0 THEN <<>>
            ELSE IF k = 1 THEN <<s[1]>>
            ELSE IF s[k] - f[k - 1][Len(f[k - 1])] > t
                 THEN Append(f[k - 1], s[k]) ELSE f[k - 1]
    IN  f[Len(s)]

\* the filter on the argument's own neighbours: keep s[1], then each element
\* whose gap to the element just before it in s is > t
KeepAfterGap(s, t) ==
    Restrict(s, {k \in DOMAIN s : k = 1 \/ s[k] - s[k - 1] > t})

\* C10 as stated: clean_IG equals the left-to-right filter on the gap to the
\* most recently kept timestamp.
C10_CleanIsKeptFilter ==
    pc = "cleaned" => ret = KeepAfterKept(ind_x, tau)

\* C10 amended: clean_IG collapses the timestamps whose gap to the timestamp
\* just before them in the argument (kept or not) is <= tau: it keeps s[0]
\* and each later element exactly when that gap is > tau.  For tau = 0 this
\* is the left-to-right filter on the most recently kept timestamp.
C10_CleanIsGapFilter ==
    pc = "cleaned" =>
        /\ ret = KeepAfterGap(ind_x, tau)
        /\ (tau = 0 => ret = KeepAfterKept(ind_x, tau))

C10_Witness ==
    /\ pc = "cleaned"
    /\ Len(ret) >= 2
    /\ ret # KeepAfterKept(ind_x, tau)
    /\ ret = KeepAfterGap(ind_x, tau)

(***************************************************************************)
(* Properties of find_IG_duo.                                              *)
(***************************************************************************)
\* the match predicate between a trigger i of ind_x and a timestamp v of ind_y
Matches(i, v, t, c) ==
    IF c = 0 THEN abs(v - i) <= t ELSE i <= v /\ v - i <= t

\* C4: every timestamp find_IG_duo returns is a timestamp of ind_y that
\* matches at least one timestamp i of ind_x: |v - i| <= tau when not causal,
\* i <= v and v - i <= tau when causal; so a causal result is never before
\* every trigger that could have matched it.
C4_DuoValuesMatch ==
    pc = "matched" =>
        \A v \in Range(ret) :
            /\ v \in Range(ind_y)
            /\ \E i \in Range(ind_x) : Matches(i, v, tau, causal)
            /\ (causal = 1 => \E i \in Range(ind_x) : i <= v /\ v - i <= tau)

C4_Witness ==
    /\ pc = "matched"
    /\ causal = 1
    /\ ret # <<>>
    /\ \E v \in Range(ind_y) : v \notin Range(ret)
                              /\ \E i \in Range(ind_x) : abs(v - i) <= tau

\* the pairs (position in ind_x, position in ind_y) that match
MatchPairs ==
    {p \in (DOMAIN ind_x) \X (DOMAIN ind_y) :
        Matches(ind_x[p[1]], ind_y[p[2]], tau, causal)}

\* the matched timestamps, one per matching pair, in ascending order
SortedMatches ==
    LET top == IF ind_y = <<>> THEN 0 ELSE ind_y[Len(ind_y)]
        n(v) == Cardinality({p \in MatchPairs : ind_y[p[2]] = v})
        m[v \in -1..top] ==
            IF v = -1 THEN <<>> ELSE m[v - 1] \o [k \in 1..n(v) |-> v]
    IN  m[top]

\* C5: find_IG_duo returns a strictly increasing sequence; without cleaning
\* it is the set of the distinct matched timestamps of ind_y in ascending
\* order, with cleaning it is clean_IG at tolerance tau of the sorted matches
\* and all its gaps exceed tau; find_IG_duo([5], [6, 7], tau=2) has one
\* element.
C5_DuoSortedDistinct ==
    pc = "matched" =>
        /\ IsStrictlyAscending(ret)
        /\ (do_clean = 0 =>
               Range(ret) = {ind_y[p[2]] : p \in MatchPairs})
        /\ (do_clean = 1 =>
               /\ ret = clean_IG(SortedMatches, tau)
               /\ GapsExceed(ret, tau))
        /\ (/\ ind_x = ExampleDuoX /\ ind_y = ExampleDuoY
            /\ tau = DefaultTau /\ do_clean = 1 /\ causal = 0
            => Len(ret) = 1)

C5_Witness ==
    /\ pc = "matched"
    /\ ind_x = ExampleDuoX
    /\ ind_y = ExampleDuoY
    /\ tau = DefaultTau
    /\ do_clean = 1
    /\ causal = 0
    /\ ret = <<6>>

(***************************************************************************)
(* Properties of count_duo_matches_in_trio and count_nb_duo.               *)
(***************************************************************************)
Orderings == {p \in [1..3 -> 1..3] : \A i, j \in 1..3 : p[i] = p[j] => i = j}

\* what count_duo_matches_in_trio returns when the three sets are given in
\* the order p
Reordered(p) ==
    LET T == <<ts1, ts2, ts3>>
    IN  count_duo_matches_in_trio(T[p[1]], T[p[2]], T[p[3]], tau, causal,
                                  do_clean, do_fraction)

\* a float as a count of units of 2^-57, by its two parts
Leq(f, g) == f[1] < g[1] \/ (f[1] = g[1] /\ f[2] <= g[2])

\* the floats f and g are less than 2^-50 = 128 * 2^-57 apart
Near(f, g) ==
    \/ f[1] = g[1]     /\ abs(f[2] - g[2]) < 128
    \/ f[1] = g[1] + 1 /\ f[2] + 2^30 - g[2] < 128
    \/ g[1] = f[1] + 1 /\ g[2] + 2^30 - f[2] < 128

IsWhole(f) == f[2] = 0 /\ f[1] % (2^27) = 0

\* C7: with do_fraction=0, count_duo_matches_in_trio returns a whole number,
\* not negative: half the sum of the six directional counts is an integer.
C7_CountIsWhole ==
    (pc = "counted" /\ do_fraction = 0) =>
        result.t = "float" /\ IsWhole(result.v)

\* the events of a set after the optional cleaning
Events(s) == IF do_clean = 1 THEN clean_IG(s, tau) ELSE s

\* C9: when the three sets are one strictly increasing set, the count is
\* 3*n for the n events the set has after the optional cleaning; and no
\* trio of sets with n events each after cleaning has a count above 3*n.
C9_IdenticalSetsGiveMaximum ==
    (pc = "counted" /\ do_fraction = 0) =>
        LET n == Len(Events(ts1))
        IN  /\ (ts1 = ts2 /\ ts2 = ts3 /\ IsStrictlyAscending(ts1))
                => result = PyFloat(<<3 * n * (2^27), 0>>)
            /\ (Len(Events(ts2)) = n /\ Len(Events(ts3)) = n)
                => \A p \in Orderings :
                       Leq(Reordered(p).v, <<3 * n * (2^27), 0>>)

C9_Witness ==
    /\ pc = "counted"
    /\ do_fraction = 0
    /\ ts1 = ts2
    /\ ts2 = ts3
    /\ do_clean = 1
    /\ tau >= 1
    /\ Len(Events(ts1)) >= 2
    /\ result = PyFloat(<<3 * Len(Events(ts1)) * (2^27), 0>>)

====
